---------------------------- MODULE Spec2Model ----------------------------
(***************************************************************************)
(* Model of pre-cache/parse_index.py: the tool that reads a rendered       *)
(* operator index, joins it against a <package>:<channel> selection file   *)
(* and appends the related images of the selected bundles to a list file.  *)
(*                                                                         *)
(* Text is a sequence of one-character strings.  A JSON field that may be  *)
(* absent is a set with at most one element: dict.get(k) is {} (None)      *)
(* when the key is absent and {v} when its value is v.                     *)
(***************************************************************************)
EXTENDS Integers, Sequences, FiniteSets, TLC

VARIABLES
    argc,        \* len(sys.argv) of the running process
    specFile,    \* content of the operators_spec_file
    indexFile,   \* content of /tmp/index.json, as a sequence of tokens
    imgFile,     \* content of the img_list_file
    pc,          \* position of __main__
    data,        \* objects returned by load_rendered_index
    bundles,     \* latest-bundle list built by extract_images
    images,      \* image list returned by extract_images
    status,      \* exit status of the process, None while it runs
    runs,        \* number of processes started so far on this img_list_file
    okRuns,      \* bookkeeping: how many of them exited with status 0
    fileAtStart, \* bookkeeping: imgFile when the running process started
    fileAtFirst  \* bookkeeping: imgFile when the first process started

vars == <<argc, specFile, indexFile, imgFile, pc, data, bundles, images,
          status, runs, okRuns, fileAtStart, fileAtFirst>>

-----------------------------------------------------------------------------
(* Bounds of the model *)

MaxRuns       == 2   \* processes run one after the other on one list file
RunSpecLines  == 1   \* lines of the selection file, specification Spec
RunTokens     == 2   \* tokens of the index file, specification Spec
ExtSpecLines  == 2   \* lines of the selection file, specification SpecExtract
ExtObjects    == 3   \* objects of the index, specification SpecExtract
MalObjects    == 3   \* objects of the index, specification SpecMalformed
SelSpecLines  == 3   \* lines of the selection file, specification SpecSelect

-----------------------------------------------------------------------------
(* Optional values: dict.get *)

None == {}
Some(v) == {v}
Value(opt) == CHOOSE v \in opt : TRUE

NL == "\n"
Whitespace == {" ", NL}

Last(s) == s[Len(s)]

-----------------------------------------------------------------------------
(* str.splitlines, str.split(":"), str.strip *)

RECURSIVE splitlinesFrom(_, _, _)
splitlinesFrom(text, i, cur) ==
    IF i > Len(text)
    THEN IF cur = <<>> THEN <<>> ELSE <<cur>>
    ELSE IF text[i] = NL
         THEN <<cur>> \o splitlinesFrom(text, i + 1, <<>>)
         ELSE splitlinesFrom(text, i + 1, Append(cur, text[i]))

splitlines(text) == splitlinesFrom(text, 1, <<>>)

RECURSIVE splitFrom(_, _, _)
splitFrom(line, i, cur) ==
    IF i > Len(line)
    THEN <<cur>>
    ELSE IF line[i] = ":"
         THEN <<cur>> \o splitFrom(line, i + 1, <<>>)
         ELSE splitFrom(line, i + 1, Append(cur, line[i]))

split(line) == splitFrom(line, 1, <<>>)

RECURSIVE lstrip(_)
lstrip(s) ==
    IF s # <<>> /\ s[1] \in Whitespace THEN lstrip(Tail(s)) ELSE s

RECURSIVE rstrip(_)
rstrip(s) ==
    IF s # <<>> /\ Last(s) \in Whitespace
    THEN rstrip(SubSeq(s, 1, Len(s) - 1))
    ELSE s

strip(s) == rstrip(lstrip(s))

-----------------------------------------------------------------------------
(* extract_images, lines 29-35: the selection loader *)

\* variant: the comprehension without its filter
keepLine_all(line) == TRUE

\* records = [i.split(":") for i in p.read().splitlines() if len(i) > 0]
keepLine(line) == Len(line) > 0

records(text) ==
    LET lines == SelectSeq(splitlines(text), keepLine)
    IN  [k \in 1..Len(lines) |-> split(lines[k])]

\* for item in records: channels[item[0].strip()] = item[1].strip() ...
\* item[1] raises IndexError on a record of one field
RECURSIVE selectionFrom(_, _, _, _)
selectionFrom(recs, k, packages, channels) ==
    IF k > Len(recs)
    THEN [ok |-> TRUE, packages |-> packages, channels |-> channels]
    ELSE IF Len(recs[k]) < 2
         THEN [ok |-> FALSE, packages |-> <<>>, channels |-> <<>>]
         ELSE selectionFrom(recs, k + 1,
                            Append(packages, strip(recs[k][1])),
                            (strip(recs[k][1]) :> strip(recs[k][2])) @@ channels)

selection(text) == selectionFrom(records(text), 1, <<>>, <<>>)

\* item.get("package") in packages
InList(opt, list) == \E k \in 1..Len(list) : opt = Some(list[k])

-----------------------------------------------------------------------------
(* extract_images, lines 36-40: bundle resolution *)

channelMatches(item, sel) ==
    /\ item.schema = Some("olm.channel")
    /\ InList(item.package, sel.packages)
    /\ item.name = Some(sel.channels[Value(item.package)])

\* variant: entries[0] in place of entries[-1]
RECURSIVE resolveBundles_first(_, _, _, _)
resolveBundles_first(objects, i, sel, acc) ==
    IF i > Len(objects)
    THEN [ok |-> TRUE, bundles |-> acc]
    ELSE IF channelMatches(objects[i], sel)
         THEN IF objects[i].entries = None
                 \/ Len(Value(objects[i].entries)) = 0
              THEN [ok |-> FALSE, bundles |-> <<>>]
              ELSE resolveBundles_first(objects, i + 1, sel,
                       Append(acc, Value(objects[i].entries)[1].name))
         ELSE resolveBundles_first(objects, i + 1, sel, acc)

\* latest = item.get("entries")[-1].get("name"): TypeError when entries is
\* absent, IndexError when it is empty
RECURSIVE resolveBundles(_, _, _, _)
resolveBundles(objects, i, sel, acc) ==
    IF i > Len(objects)
    THEN [ok |-> TRUE, bundles |-> acc]
    ELSE IF channelMatches(objects[i], sel)
         THEN IF objects[i].entries = None
                 \/ Len(Value(objects[i].entries)) = 0
              THEN [ok |-> FALSE, bundles |-> <<>>]
              ELSE resolveBundles(objects, i + 1, sel,
                       Append(acc, Last(Value(objects[i].entries)).name))
         ELSE resolveBundles(objects, i + 1, sel, acc)

-----------------------------------------------------------------------------
(* extract_images, lines 41-46: image resolution *)

\* item.get("name") in bundles
InBundles(opt, bl) == \E k \in 1..Len(bl) : opt = bl[k]

bundleMatches(item, bl, sel) ==
    /\ item.schema = Some("olm.bundle")
    /\ InBundles(item.name, bl)
    /\ InList(item.package, sel.packages)

\* [elem.get("image") for elem in item.get("relatedImages")]
imagesOf(item) ==
    LET rel == Value(item.relatedImages)
    IN  [k \in 1..Len(rel) |-> rel[k].image]

\* variant: an image already in the list is not appended again
RECURSIVE resolveImages_dedup(_, _, _, _, _)
resolveImages_dedup(objects, i, bl, sel, acc) ==
    IF i > Len(objects)
    THEN [ok |-> TRUE, images |-> acc]
    ELSE IF bundleMatches(objects[i], bl, sel)
         THEN IF objects[i].relatedImages = None
              THEN [ok |-> FALSE, images |-> <<>>]
              ELSE LET fresh(e) == \A k \in 1..Len(acc) : acc[k] # e
                   IN  resolveImages_dedup(objects, i + 1, bl, sel,
                           acc \o SelectSeq(imagesOf(objects[i]), fresh))
         ELSE resolveImages_dedup(objects, i + 1, bl, sel, acc)

\* variant: the images are appended once per occurrence of the name in bundles
RECURSIVE resolveImages_perReference(_, _, _, _, _)
resolveImages_perReference(objects, i, bl, sel, acc) ==
    IF i > Len(objects)
    THEN [ok |-> TRUE, images |-> acc]
    ELSE IF bundleMatches(objects[i], bl, sel)
         THEN IF objects[i].relatedImages = None
              THEN [ok |-> FALSE, images |-> <<>>]
              ELSE LET n == Cardinality({k \in 1..Len(bl) : bl[k] = objects[i].name})
                       once == imagesOf(objects[i])
                       times == [k \in 1..(n * Len(once)) |->
                                    once[((k - 1) % Len(once)) + 1]]
                   IN  resolveImages_perReference(objects, i + 1, bl, sel,
                                                  acc \o times)
         ELSE resolveImages_perReference(objects, i + 1, bl, sel, acc)

\* iterating None raises TypeError when relatedImages is absent
RECURSIVE resolveImages(_, _, _, _, _)
resolveImages(objects, i, bl, sel, acc) ==
    IF i > Len(objects)
    THEN [ok |-> TRUE, images |-> acc]
    ELSE IF bundleMatches(objects[i], bl, sel)
         THEN IF objects[i].relatedImages = None
              THEN [ok |-> FALSE, images |-> <<>>]
              ELSE resolveImages(objects, i + 1, bl, sel,
                                 acc \o imagesOf(objects[i]))
         ELSE resolveImages(objects, i + 1, bl, sel, acc)

extract_images(text, objects) ==
    LET sel == selection(text)
        a   == resolveBundles(objects, 1, sel, <<>>)
        b   == resolveImages(objects, 1, a.bundles, sel, <<>>)
    IN  IF ~sel.ok THEN [ok |-> FALSE, bundles |-> <<>>, images |-> <<>>]
        ELSE IF ~a.ok THEN [ok |-> FALSE, bundles |-> <<>>, images |-> <<>>]
        ELSE IF ~b.ok THEN [ok |-> FALSE, bundles |-> <<>>, images |-> <<>>]
        ELSE [ok |-> TRUE, bundles |-> a.bundles, images |-> b.images]

-----------------------------------------------------------------------------
(* load_rendered_index: the index file is a sequence of tokens, each a     *)
(* run of whitespace, a complete JSON value, or text that is no JSON value *)

WS          == [kind |-> "ws",    obj |-> None]
Junk        == [kind |-> "junk",  obj |-> None]
JsonValue(o) == [kind |-> "value", obj |-> Some(o)]

RECURSIVE lstripTokens(_)
lstripTokens(toks) ==
    IF toks # <<>> /\ toks[1].kind = "ws" THEN lstripTokens(Tail(toks)) ELSE toks

\* while data: obj, index = decoder.raw_decode(data); objects.append(obj);
\*             data = data[index:].lstrip()
RECURSIVE decodeLoop(_, _)
decodeLoop(toks, objects) ==
    IF toks = <<>>
    THEN [ok |-> TRUE, objects |-> objects]
    ELSE IF toks[1].kind # "value"
         THEN [ok |-> FALSE, objects |-> <<>>]
         ELSE decodeLoop(lstripTokens(Tail(toks)),
                         Append(objects, Value(toks[1].obj)))

load_rendered_index(toks) == decodeLoop(lstripTokens(toks), <<>>)

-----------------------------------------------------------------------------
(* __main__, lines 67-69: '\n'.join(images) followed by '\n' *)

RECURSIVE join(_)
join(imgs) ==
    IF imgs = <<>> THEN <<>>
    ELSE IF Len(imgs) = 1 THEN <<Value(imgs[1])>>
    ELSE <<Value(imgs[1]), NL>> \o join(Tail(imgs))

\* str.join raises TypeError on an item that is None
joinable(imgs) == \A k \in 1..Len(imgs) : imgs[k] # None

\* variant: the second f.write is missing
written_noNewline(imgs) == join(imgs)

written(imgs) == join(imgs) \o <<NL>>

-----------------------------------------------------------------------------
(* __main__: one process, from parse_args to exit *)

Exit(code) ==
    /\ pc' = "exit"
    /\ status' = Some(code)

\* args = parse_args(): fewer than two positional arguments print the help
\* and exit(1)
MainParseArgs ==
    /\ pc = "start"
    /\ IF argc < 3 THEN Exit(1) ELSE pc' = "parsed" /\ status' = status
    /\ UNCHANGED <<argc, specFile, indexFile, imgFile, data, bundles, images,
                   runs, okRuns, fileAtStart, fileAtFirst>>

\* data = load_rendered_index(); an exception exits with status 1
MainLoad ==
    /\ pc = "parsed"
    /\ LET r == load_rendered_index(indexFile)
       IN  IF r.ok
           THEN data' = r.objects /\ pc' = "loaded" /\ status' = status
           ELSE data' = data /\ Exit(1)
    /\ UNCHANGED <<argc, specFile, indexFile, imgFile, bundles, images,
                   runs, okRuns, fileAtStart, fileAtFirst>>

\* images = extract_images(args, data); an exception exits with status 1
MainExtract ==
    /\ pc = "loaded"
    /\ LET r == extract_images(specFile, data)
       IN  IF r.ok
           THEN /\ bundles' = r.bundles
                /\ images' = r.images
                /\ pc' = "extracted"
                /\ status' = status
           ELSE /\ UNCHANGED <<bundles, images>>
                /\ Exit(1)
    /\ UNCHANGED <<argc, specFile, indexFile, imgFile, data,
                   runs, okRuns, fileAtStart, fileAtFirst>>

\* variant: the list file is opened in mode 'w'
MainWrite_truncate ==
    /\ pc = "extracted"
    /\ IF argc < 4 \/ ~joinable(images)
       THEN /\ UNCHANGED <<imgFile, okRuns>>
            /\ Exit(1)
       ELSE /\ imgFile' = written(images)
            /\ okRuns' = okRuns + 1
            /\ Exit(0)
    /\ UNCHANGED <<argc, specFile, indexFile, data, bundles, images,
                   runs, fileAtStart, fileAtFirst>>

\* variant: the images are written one by one, up to the one that is None
RECURSIVE linesBeforeNone(_)
linesBeforeNone(imgs) ==
    IF imgs = <<>> \/ imgs[1] = None THEN <<>>
    ELSE <<Value(imgs[1]), NL>> \o linesBeforeNone(Tail(imgs))

MainWrite_partial ==
    /\ pc = "extracted"
    /\ IF argc < 4
       THEN /\ UNCHANGED <<imgFile, okRuns>>
            /\ Exit(1)
       ELSE IF ~joinable(images)
       THEN /\ imgFile' = imgFile \o linesBeforeNone(images)
            /\ okRuns' = okRuns
            /\ Exit(1)
       ELSE /\ imgFile' = imgFile \o written(images)
            /\ okRuns' = okRuns + 1
            /\ Exit(0)
    /\ UNCHANGED <<argc, specFile, indexFile, data, bundles, images,
                   runs, fileAtStart, fileAtFirst>>

\* with open(args.img_list_file.name, 'a') as f: f.write('\n'.join(images));
\* f.write('\n'); exit(0).  args.img_list_file is None when the third
\* positional argument is absent (AttributeError); join raises TypeError
MainWrite ==
    /\ pc = "extracted"
    /\ IF argc < 4 \/ ~joinable(images)
       THEN /\ UNCHANGED <<imgFile, okRuns>>
            /\ Exit(1)
       ELSE /\ imgFile' = imgFile \o written(images)
            /\ okRuns' = okRuns + 1
            /\ Exit(0)
    /\ UNCHANGED <<argc, specFile, indexFile, data, bundles, images,
                   runs, fileAtStart, fileAtFirst>>

\* the tool is run again with the same arguments and the same list file
NextRun ==
    /\ pc = "exit"
    /\ runs < MaxRuns
    /\ runs' = runs + 1
    /\ pc' = "start"
    /\ status' = None
    /\ data' = <<>>
    /\ bundles' = <<>>
    /\ images' = <<>>
    /\ fileAtStart' = imgFile
    /\ UNCHANGED <<argc, specFile, indexFile, imgFile, okRuns, fileAtFirst>>

-----------------------------------------------------------------------------
(* Inputs *)

P == <<"p">>
Q == <<"q">>
S == <<"s">>
B == <<"b">>
X == <<"x">>
Y == <<"y">>

SeqsUpTo(set, n) == UNION {[1..k -> set] : k \in 0..n}

\* the file whose lines are ls, each ended by a newline
RECURSIVE Text(_)
Text(ls) == IF ls = <<>> THEN <<>> ELSE ls[1] \o <<NL>> \o Text(Tail(ls))

TextsOf(lines, n) == {Text(ls) : ls \in SeqsUpTo(lines, n)}

LinePS    == <<"p", ":", "s">>
LineQS    == <<" ", "q", " ", ":", " ", "s", " ">>
LineQB    == <<"q", ":", "b">>
LineEmpty == <<>>
LineBlank == <<" ">>
LineP     == <<"p">>
LinePSB   == <<"p", ":", "s", ":", "b">>

GoodLines == {LinePS, LineQB}
AllLines  == {LinePS, LineQS, LineQB, LineEmpty, LineBlank, LineP, LinePSB}

Obj(schema, package, name, entries, relatedImages) ==
    [schema |-> schema, package |-> package, name |-> name,
     entries |-> entries, relatedImages |-> relatedImages]

Entries(names) == [k \in 1..Len(names) |-> [name |-> names[k]]]
Related(imgs)  == [k \in 1..Len(imgs) |-> [image |-> imgs[k]]]

Channel(package, name, names) ==
    Obj(Some("olm.channel"), package, name, Some(Entries(names)), None)
Bundle(name, package, imgs) ==
    Obj(Some("olm.bundle"), package, name, None, Some(Related(imgs)))
Other == Obj(Some("olm.package"), Some(P), Some(P), None, None)

ExtObjs ==
    { Channel(Some(P), Some(S), <<Some(X)>>),
      Channel(Some(Q), Some(B), <<Some(Y), Some(X)>>),
      Channel(Some(Q), Some(S), <<Some(Y)>>),
      Bundle(Some(X), Some(P), <<Some("i"), Some("j")>>),
      Bundle(Some(X), Some(Q), <<Some("i")>>),
      Bundle(Some(Y), Some(Q), <<Some("j")>>) }

MalObjs ==
    { Channel(Some(P), Some(S), <<Some(X)>>),
      Channel(Some(P), Some(S), <<None>>),
      Channel(Some(P), Some(S), <<>>),
      Obj(Some("olm.channel"), Some(P), Some(S), None, None),
      Channel(None, Some(S), <<Some(X)>>),
      Channel(Some(P), None, <<Some(X)>>),
      Channel(Some(Q), Some(S), <<>>),
      Bundle(Some(X), Some(P), <<Some("i")>>),
      Bundle(None, Some(P), <<Some("j")>>),
      Bundle(Some(X), None, <<Some("j")>>),
      Obj(Some("olm.bundle"), Some(P), Some(X), None, None),
      Other }

Values(objs) == [k \in 1..Len(objs) |-> JsonValue(objs[k])]

RunTokenSet ==
    { WS, Junk,
      JsonValue(Channel(Some(P), Some(S), <<Some(X)>>)),
      JsonValue(Bundle(Some(X), Some(P), <<Some("i"), Some("j")>>)),
      JsonValue(Bundle(Some(X), Some(P), <<Some("i"), None>>)),
      JsonValue(Channel(Some(P), Some(S), <<>>)),
      JsonValue(Obj(Some("olm.bundle"), Some(P), Some(X), None, None)) }

SelIndexes ==
    { <<>>,
      Values(<<Channel(Some(P), Some(S), <<Some(X)>>),
               Channel(Some(Q), Some(B), <<Some(Y)>>),
               Bundle(Some(X), Some(P), <<Some("i")>>),
               Bundle(Some(Y), Some(Q), <<Some("j")>>)>>) }

\* an earlier run of the tool may have left lines in the list file
Priors == {<<>>, <<"k", NL>>}

-----------------------------------------------------------------------------
(* Specifications *)

InitWith(argcs, texts, indexes, priors) ==
    /\ argc \in argcs
    /\ specFile \in texts
    /\ indexFile \in indexes
    /\ imgFile \in priors
    /\ pc = "start"
    /\ status = None
    /\ data = <<>>
    /\ bundles = <<>>
    /\ images = <<>>
    /\ runs = 1
    /\ okRuns = 0
    /\ fileAtStart = imgFile
    /\ fileAtFirst = imgFile

\* whole runs, repeated on one list file
Init == InitWith(1..4, TextsOf(AllLines, RunSpecLines),
                 SeqsUpTo(RunTokenSet, RunTokens), Priors)

Next == MainParseArgs \/ MainLoad \/ MainExtract \/ MainWrite \/ NextRun

Spec == Init /\ [][Next]_vars

\* one run over every small catalog
InitExtract ==
    InitWith({4}, TextsOf(GoodLines, ExtSpecLines),
             {Values(objs) : objs \in SeqsUpTo(ExtObjs, ExtObjects)}, {<<>>})

NextOnce == MainParseArgs \/ MainLoad \/ MainExtract \/ MainWrite

SpecExtract == InitExtract /\ [][NextOnce]_vars

\* one run over catalogs of objects that lack fields
InitMalformed ==
    InitWith({4}, {Text(<<LinePS>>)},
             {Values(objs) : objs \in SeqsUpTo(MalObjs, MalObjects)}, {<<>>})

SpecMalformed == InitMalformed /\ [][NextOnce]_vars

\* one run over every small selection file
InitSelect == InitWith({4}, TextsOf(AllLines, SelSpecLines), SelIndexes, {<<>>})

SpecSelect == InitSelect /\ [][NextOnce]_vars

-----------------------------------------------------------------------------
(* Vocabulary of the properties, stated over the inputs of the run *)

Sel == selection(specFile)
SelPackages == {Sel.packages[k] : k \in 1..Len(Sel.packages)}
SelChannel(p) == Sel.channels[p]
Selected(opt) == \E p \in SelPackages : opt = Some(p)

IsChannel(o) == o.schema = Some("olm.channel")
IsBundle(o)  == o.schema = Some("olm.bundle")

Count(v, seq) == Cardinality({k \in 1..Len(seq) : seq[k] = v})

\* the k-th smallest element of a set of indices
Kth(set, k) == CHOOSE i \in set : Cardinality({j \in set : j <= i}) = k

\* channel objects of the loaded index that match the selection
MatchedChannels ==
    {i \in 1..Len(data) :
        /\ IsChannel(data[i])
        /\ \E p \in SelPackages :
              data[i].package = Some(p) /\ data[i].name = Some(SelChannel(p))}

HasEntries(o) == o.entries # None /\ Len(Value(o.entries)) > 0
LatestOf(o) == Last(Value(o.entries)).name
BundleSet == {bundles[k] : k \in 1..Len(bundles)}

\* bundle objects of the loaded index that Step B selects
MatchedBundles ==
    {i \in 1..Len(data) :
        /\ IsBundle(data[i])
        /\ data[i].name \in BundleSet
        /\ Selected(data[i].package)}

RelatedOf(o) == [k \in 1..Len(Value(o.relatedImages)) |-> Value(o.relatedImages)[k].image]

\* number of images of the matched bundle objects before position i
Offset(i) ==
    LET before == {j \in MatchedBundles : j < i}
        RECURSIVE Sum(_)
        Sum(set) == IF set = {} THEN 0
                    ELSE LET j == CHOOSE j \in set : TRUE
                         IN  Len(RelatedOf(data[j])) + Sum(set \ {j})
    IN  Sum(before)

-----------------------------------------------------------------------------
(* C1 *)

\* C1: on a successful run every image written comes from an olm.bundle
\* object b whose package is selected and whose name is the last entry of an
\* olm.channel object of b's own package and of the channel selected for it.
C1_PerPackageMatch ==
    status = Some(0) =>
        \A k \in 1..Len(images) :
            \E i \in 1..Len(data) :
                /\ IsBundle(data[i])
                /\ data[i].relatedImages # None
                /\ Count(images[k], RelatedOf(data[i])) > 0
                /\ Selected(data[i].package)
                /\ \E c \in 1..Len(data) :
                      /\ IsChannel(data[c])
                      /\ data[c].package = data[i].package
                      /\ data[c].name = Some(SelChannel(Value(data[i].package)))
                      /\ HasEntries(data[c])
                      /\ LatestOf(data[c]) = data[i].name

-----------------------------------------------------------------------------
(* C4 *)

\* C4: after Step A the latest-bundle list holds, for each olm.channel object
\* matching the selection and in catalog order, the name of the last element
\* of its entries, and nothing else.
C4_LatestBundles ==
    pc = "extracted" =>
        /\ Len(bundles) = Cardinality(MatchedChannels)
        /\ \A k \in 1..Len(bundles) :
              bundles[k] = LatestOf(data[Kth(MatchedChannels, k)])

C4_Witness ==
    /\ pc = "extracted"
    /\ \E i \in MatchedChannels :
          /\ Len(Value(data[i].entries)) >= 2
          /\ Value(data[i].entries)[1].name # LatestOf(data[i])
    /\ \E i \in 1..Len(data) :
          IsChannel(data[i]) /\ i \notin MatchedChannels /\ HasEntries(data[i])

-----------------------------------------------------------------------------
(* C5 *)

\* C5: the image list is the concatenation, in catalog order, of the
\* relatedImages image fields (in their order) of exactly the olm.bundle
\* objects whose name is in the latest-bundle set and whose package is
\* selected, with nothing reordered or deduplicated.
C5_ImageList ==
    pc = "extracted" =>
        /\ Len(images) = Offset(Len(data) + 1)
        /\ \A i \in MatchedBundles :
              \A k \in 1..Len(RelatedOf(data[i])) :
                  images[Offset(i) + k] = RelatedOf(data[i])[k]

C5_Witness ==
    /\ pc = "extracted"
    /\ \E i, j \in MatchedBundles :
          /\ i < j
          /\ data[i] # data[j]
          /\ \E v \in {"i", "j"} :
                /\ Count(Some(v), RelatedOf(data[i])) > 0
                /\ Count(Some(v), RelatedOf(data[j])) > 0
                /\ Count(Some(v), images) >= 2

-----------------------------------------------------------------------------
(* C6 *)

\* names that Step A resolved more than once
TwiceResolved == {n \in BundleSet : Count(n, bundles) >= 2}

\* C6 as stated: when a bundle's name was resolved as the latest entry by two
\* matching olm.channel objects, each image of that bundle appears (at
\* least) twice in the image list.
C6_TwicePerReference ==
    pc = "extracted" =>
        \A i \in MatchedBundles :
            data[i].name \in TwiceResolved =>
                \A k \in 1..Len(RelatedOf(data[i])) :
                    Count(RelatedOf(data[i])[k], images) >= 2

\* occurrences of image v in the relatedImages of the matched bundle objects
RECURSIVE OccurrencesIn(_, _)
OccurrencesIn(v, set) ==
    IF set = {} THEN 0
    ELSE LET j == CHOOSE j \in set : TRUE
         IN  Count(v, RelatedOf(data[j])) + OccurrencesIn(v, set \ {j})

\* C6 amended: a name resolved by two matching channels is held twice by the
\* latest-bundle list, yet every image appears in the image list once per
\* occurrence in the relatedImages of a matched olm.bundle object, not once
\* per reference.
C6_OncePerObject ==
    (pc = "extracted" /\ TwiceResolved # {}) =>
        \A i \in MatchedBundles :
            \A k \in 1..Len(RelatedOf(data[i])) :
                Count(RelatedOf(data[i])[k], images)
                    = OccurrencesIn(RelatedOf(data[i])[k], MatchedBundles)

C6_Witness ==
    /\ pc = "extracted"
    /\ \E i \in MatchedBundles :
          /\ data[i].name \in TwiceResolved
          /\ Len(RelatedOf(data[i])) > 0
          /\ Count(RelatedOf(data[i])[1], images) = 1

-----------------------------------------------------------------------------
(* C9 *)

\* Step B without the package check: bundles are selected by name alone
RECURSIVE imagesByName(_, _, _, _)
imagesByName(objects, i, bl, acc) ==
    IF i > Len(objects)
    THEN [ok |-> TRUE, images |-> acc]
    ELSE IF IsBundle(objects[i]) /\ InBundles(objects[i].name, bl)
         THEN IF objects[i].relatedImages = None
              THEN [ok |-> FALSE, images |-> <<>>]
              ELSE imagesByName(objects, i + 1, bl, acc \o imagesOf(objects[i]))
         ELSE imagesByName(objects, i + 1, bl, acc)

\* C9: selecting bundles by "name is in the latest-bundle set" alone returns
\* the image list that the extractor returns.
C9_PackageCheckRedundant ==
    pc = "extracted" =>
        LET r == imagesByName(data, 1, bundles, <<>>)
        IN  r.ok /\ r.images = images

-----------------------------------------------------------------------------
(* C10 *)

\* objects the claim calls skipped: an unrecognized schema, or a channel or
\* bundle without its package or its name
Inert(o) ==
    \/ ~IsChannel(o) /\ ~IsBundle(o)
    \/ o.package = None
    \/ o.name = None

Live(o) == ~Inert(o)

\* a matched channel without a last entry, or (Step A done) a matched bundle
\* without relatedImages
AbortCause ==
    \/ \E i \in MatchedChannels : ~HasEntries(data[i])
    \/ /\ \A i \in MatchedChannels : HasEntries(data[i])
       /\ \E i \in 1..Len(data) :
             /\ IsBundle(data[i])
             /\ data[i].name \in {LatestOf(data[c]) : c \in MatchedChannels}
             /\ Selected(data[i].package)
             /\ data[i].relatedImages = None

\* the extraction has returned, or has raised and the run has exited
Aborted == pc = "exit" /\ status = Some(1)
Extracting == pc = "extracted" \/ Aborted

\* C10: skipped objects never abort the run and contribute nothing (the
\* extraction goes as it does on the catalog without them), and the
\* extraction aborts exactly on a matched channel whose entries are missing
\* or empty or a matched bundle whose relatedImages are missing.
C10_SkippedObjects ==
    Extracting =>
        LET r == extract_images(specFile, SelectSeq(data, Live))
        IN  /\ (pc = "extracted") = r.ok
            /\ pc = "extracted" => (r.bundles = bundles /\ r.images = images)
            /\ Aborted = AbortCause

-----------------------------------------------------------------------------
(* C8 *)

\* the selection file with one more line after its first k lines
InsertLine(text, k, line) ==
    LET ls == splitlines(text)
    IN  Text(SubSeq(ls, 1, k) \o <<line>> \o SubSeq(ls, k + 1, Len(ls)))

SameOutcomeWith(text) ==
    LET r == extract_images(text, data)
    IN  selection(text) = Sel /\ r.ok /\ r.images = images

\* C8 as stated: a blank line, empty or of whitespace only, inserted anywhere
\* in a well-formed selection file changes neither the mapping nor the
\* outcome of the run.
C8_BlankLines ==
    pc = "extracted" =>
        \A k \in 0..Len(splitlines(specFile)) :
            \A blank \in {LineEmpty, LineBlank} :
                SameOutcomeWith(InsertLine(specFile, k, blank))

\* C8 amended: an empty (zero-length) line inserted anywhere in a well-formed
\* selection file changes neither the mapping nor the outcome of the run; a
\* line of whitespace only is not skipped and makes the selection loader
\* raise.
C8_EmptyLines ==
    pc = "extracted" =>
        \A k \in 0..Len(splitlines(specFile)) :
            /\ SameOutcomeWith(InsertLine(specFile, k, LineEmpty))
            /\ ~selection(InsertLine(specFile, k, LineBlank)).ok
            /\ ~extract_images(InsertLine(specFile, k, LineBlank), data).ok

C8_Witness ==
    /\ pc = "extracted"
    /\ images # <<>>
    /\ \E k \in 2..(Len(splitlines(specFile)) - 1) :
          /\ splitlines(specFile)[k] = LineEmpty
          /\ splitlines(specFile)[k - 1] # LineEmpty
          /\ splitlines(specFile)[k + 1] # LineEmpty

-----------------------------------------------------------------------------
(* C7 *)

\* C7: a successful run with n >= 1 images adds exactly n lines to the list
\* file, one per image and in order; with no image it adds one empty line.
C7_LinesAdded ==
    status = Some(0) =>
        splitlines(imgFile) =
            splitlines(fileAtStart) \o
                (IF images = <<>>
                 THEN <<LineEmpty>>
                 ELSE [k \in 1..Len(images) |-> <<Value(images[k])>>])

C7_Witness ==
    /\ status = Some(0)
    /\ Len(images) >= 2
    /\ fileAtStart # <<>>

-----------------------------------------------------------------------------
(* C3 *)

NoColonLine ==
    \E k \in 1..Len(splitlines(specFile)) :
        /\ splitlines(specFile)[k] # <<>>
        /\ Len(split(splitlines(specFile)[k])) < 2

JunkIndex == \E k \in 1..Len(indexFile) : indexFile[k].kind = "junk"

\* at exit: status 0 exactly when the list file received the write, status 1
\* and an untouched list file otherwise, and the named causes all abort
C3_AtExit ==
    pc = "exit" =>
        /\ status \in {Some(0), Some(1)}
        /\ (status = Some(0)) = (imgFile # fileAtStart)
        /\ status = Some(0) => imgFile = fileAtStart \o written(images)
        /\ (argc < 3 \/ NoColonLine \/ JunkIndex \/ AbortCause)
              => (status = Some(1) /\ imgFile = fileAtStart)

-----------------------------------------------------------------------------
(* C2 *)

IsPrefix(a, b) == Len(a) <= Len(b) /\ SubSeq(b, 1, Len(a)) = a

\* after two successful runs the second block repeats the first
Doubled ==
    (runs = 2 /\ okRuns = 2) =>
        LET n0 == Len(fileAtFirst)
            n  == Len(fileAtStart) - n0
        IN  /\ IsPrefix(fileAtFirst, fileAtStart)
            /\ n >= 1
            /\ Len(imgFile) = n0 + 2 * n
            /\ SubSeq(imgFile, n0 + 1, n0 + n)
                  = SubSeq(imgFile, n0 + n + 1, n0 + 2 * n)
            /\ Len(splitlines(imgFile)) - Len(splitlines(fileAtFirst))
                  = 2 * (Len(splitlines(fileAtStart)) - Len(splitlines(fileAtFirst)))

\* C2: no step of any run removes or rewrites what the list file holds (the
\* content before is a prefix of the content after), and two successful runs
\* with the same selection and catalog append the same block twice.
C2_Additive ==
    /\ [][IsPrefix(imgFile, imgFile')]_vars
    /\ []Doubled

C2_Witness ==
    /\ runs = 2
    /\ okRuns = 2
    /\ fileAtFirst # <<>>
    /\ Len(images) >= 2

=============================================================================
